---- MODULE Spec2Model ----
(***************************************************************************)
(* The multi-search-term CSV tool of lune-simfoni (src/unnamed/part_001):  *)
(* for every input record, main() expands the record into candidates,      *)
(* runs calculateEmissions for all of them concurrently, ranks and merges  *)
(* the collected results into one output row, and writes the output rows   *)
(* in chunks of outputFileRows rows.                                       *)
(*                                                                         *)
(* JavaScript runs one callback at a time.  Every action below is one run  *)
(* of the event loop: from the event that resumes the code (the CSV being  *)
(* loaded, a service response, a backoff timer, the join of a row's tasks, *)
(* a file write completing) to the next point where all code is waiting.   *)
(***************************************************************************)
EXTENDS Integers, Sequences, FiniteSets, TLC

\* ------------------------------------------------------------------ bounds
MaxSearchTermColumns == 3
MaxCategoryColumns == 2
MaxRows == 3
MaxOutputFileRows == 3
MaxScore == 1
MaxFaults == 1
MaxTextLen == 4
MaxFileRecords == 2

\* ------------------------------------------------------- program constants
MAX_RETRIES == 5

\* The argument of sleepMs in calculateEmissions (line 111).
RetryDelayMs == 500

\* ------------------------------------------------------------------ values
\* A match score is a number >= 0; the two ways a results entry has no score
\* are kept apart as in the code (score: number | null | undefined).
Undefined == -1
Null == -2
Scores == 0 .. MaxScore

\* A string is the sequence of its characters; the empty string is <<>>.  A
\* character that stands for a run of ordinary characters is written as that run.
Whitespace == {" ", "\t", "\n"}

\* The value of a candidate's category when no category column is configured.
UndefinedCategory == <<"<undefined>">>

\* Cell values of the generator's inputs: empty, and values that can repeat.
Values == {<<>>, <<"a">>, <<"b">>}

\* The description carried by an error of the service.
Descriptions == {<<"d1">>, <<"d2">>}

\* The fields of a TransactionEmissionEstimate that the tool reads, besides
\* mass and searchTermMatchScore.
EstimateFields ==
    [amount |-> <<"0.001">>, id |-> <<"id">>, exchangeRate |-> 2,
     emissionFactor |-> [name |-> <<"factor">>, source |-> <<"exiobase">>,
                         numeratorUnit |-> <<"kg">>, denominatorUnit |-> <<"EUR">>,
                         co2E |-> 3]]

\* What one call of luneClient.createTransactionEstimate can resolve to.
EstimateResponses ==
    {[kind |-> "estimate", mass |-> TRUE, score |-> s, fields |-> EstimateFields] :
        s \in Scores \cup {Undefined}}
        \cup {[kind |-> "estimate", mass |-> FALSE, score |-> Undefined,
               fields |-> EstimateFields]}

ErrorResponses ==
    {[kind |-> "error", statusCode |-> b, description |-> d] :
        b \in BOOLEAN, d \in Descriptions}

Responses == EstimateResponses \cup ErrorResponses

\* `result` before the first call has resolved (let result: ... | undefined).
NoResult == [kind |-> "undefined"]

\* The local `result` of a candidate task before calculateEmissions returned.
NoReturn == [tag |-> "pending"]

VARIABLES
    pc,                     \* where main() is
    searchTermColumnsArr,   \* names of the search-term columns
    categoryColumnsArr,     \* names of the category columns
    outputFileRows,         \* the chunk size
    file,                   \* the input file as csv-parse reads it: its records
    source,                 \* the loaded records, in input order
    precond,                \* which preconditions of main() the environment meets
    i,                      \* main's row index (0-based)
    searchPermutations,     \* the candidates of the current record
    requests,               \* per candidate: the request calculateEmissions sends
    tpc,                    \* per candidate: where its task is
    retryCount,             \* per candidate: calculateEmissions' loop counter
    result,                 \* per candidate: the last resolved service call
    returned,               \* per candidate: what calculateEmissions returned
    calls,                  \* per candidate: createTransactionEstimate calls issued
    failures,               \* per candidate: calls that failed without a status code
    waited,                 \* per candidate: milliseconds of sleepMs asked for
    permutationsResults,    \* the results collection of the current record
    sortedPermutationResults, \* the ranked results of the last ranked record
    out,                    \* the accumulator of output rows
    written,                \* the writeFile calls completed, in order
    faults                  \* failures without status code the service may still produce

vars == <<pc, searchTermColumnsArr, categoryColumnsArr, outputFileRows, file, source, precond,
          i, searchPermutations, requests, tpc, retryCount, result, returned, calls, failures, waited,
          permutationsResults, sortedPermutationResults, out, written, faults>>

totalRows == Len(source)

Max(a, b) == IF a > b THEN a ELSE b

\* Column names, by position.
SearchTermColumnNames == <<"s1", "s2", "s3", "s4">>
CategoryColumnNames == <<"c1", "c2", "c3", "c4">>

\* The columns named by the options -m, -cu and -c.
monetaryAmountColumn == "amount"
currencyColumn == "currency"
countryCodeColumn == "country"

\* ------------------------------------------------------------------ strings
\* String.prototype.trim.
RECURSIVE TrimStart(_)
TrimStart(text) ==
    IF text # <<>> /\ Head(text) \in Whitespace THEN TrimStart(Tail(text)) ELSE text

RECURSIVE TrimEnd(_)
TrimEnd(text) ==
    IF text # <<>> /\ text[Len(text)] \in Whitespace
    THEN TrimEnd(SubSeq(text, 1, Len(text) - 1))
    ELSE text

Trim(text) == TrimEnd(TrimStart(text))

\* The replacement as it would be without the g flag: the first comma only.
RECURSIVE RemoveFirstComma(_)
RemoveFirstComma(text) ==
    IF text = <<>> THEN <<>>
    ELSE IF Head(text) = "," THEN Tail(text)
    ELSE <<Head(text)>> \o RemoveFirstComma(Tail(text))

\* replace(/,/g, ''): every comma is dropped, from left to right.
RECURSIVE RemoveCommas(_)
RemoveCommas(text) ==
    IF text = <<>> THEN <<>>
    ELSE IF Head(text) = "," THEN RemoveCommas(Tail(text))
    ELSE <<Head(text)>> \o RemoveCommas(Tail(text))

\* --------------------------------------------------- permutation generator
RECURSIVE CategoryLoop(_, _, _)
CategoryLoop(acc, searchTerm, categories) ==
    IF categories = <<>> THEN acc
    ELSE CategoryLoop(Append(acc, [searchTerm |-> searchTerm, category |-> Head(categories)]),
                      searchTerm, Tail(categories))

RECURSIVE SearchTermLoop(_, _, _)
SearchTermLoop(acc, searchTerms, categories) ==
    IF searchTerms = <<>> THEN acc
    ELSE SearchTermLoop(CategoryLoop(acc, Head(searchTerms), categories),
                        Tail(searchTerms), categories)

\* The generator with the two loops exchanged.
RECURSIVE SearchTermInnerLoop(_, _, _)
SearchTermInnerLoop(acc, searchTerms, category) ==
    IF searchTerms = <<>> THEN acc
    ELSE SearchTermInnerLoop(Append(acc, [searchTerm |-> Head(searchTerms), category |-> category]),
                             Tail(searchTerms), category)

RECURSIVE CategoryOuterLoop(_, _, _)
CategoryOuterLoop(acc, searchTerms, categories) ==
    IF categories = <<>> THEN acc
    ELSE CategoryOuterLoop(SearchTermInnerLoop(acc, searchTerms, Head(categories)),
                           searchTerms, Tail(categories))

searchCategoryPermutationsCategoryMajor(searchTerms, categories) ==
    CategoryOuterLoop(<<>>, searchTerms, categories)

searchCategoryPermutations(searchTerms, categories) ==
    SearchTermLoop(<<>>, searchTerms, categories)

\* main, lines 238-241: the record's search terms and categories.
RowSearchTerms(row) ==
    [k \in 1 .. Len(searchTermColumnsArr) |-> Trim(row[searchTermColumnsArr[k]])]

RowCategories(row) ==
    IF Len(categoryColumnsArr) # 0
    THEN [k \in 1 .. Len(categoryColumnsArr) |-> Trim(row[categoryColumnsArr[k]])]
    ELSE <<UndefinedCategory>>

\* main, lines 242-244.
RowAmount(row) == RemoveCommas(Trim(row[monetaryAmountColumn]))

RowCurrency(row) == Trim(row[currencyColumn])

RowCountryCode(row) == Trim(row[countryCodeColumn])

RowPermutations(row) ==
    searchCategoryPermutations(RowSearchTerms(row), RowCategories(row))

\* ------------------------------------------------ estimation request adapter
\* Result values of ts-results-es, as calculateEmissions returns them.
Err(description) == [tag |-> "err", error |-> description]

Ok(value) == [tag |-> "ok", value |-> value]

\* The request as it would be if the category were sent whenever it is defined.
RequestCategoryIfDefined(candidate, amount, currency, countryCode) ==
    [value |-> [value |-> amount, currency |-> currency],
     merchant |->
        IF candidate.category # UndefinedCategory
        THEN [searchTerm |-> candidate.searchTerm, countryCode |-> countryCode,
              category |-> candidate.category]
        ELSE [searchTerm |-> candidate.searchTerm, countryCode |-> countryCode]]

\* calculateEmissions, lines 82-92: the request built from the arguments; the
\* category is sent when it is truthy.
Request(candidate, amount, currency, countryCode) ==
    [value |-> [value |-> amount, currency |-> currency],
     merchant |->
        IF candidate.category # UndefinedCategory /\ candidate.category # <<>>
        THEN [searchTerm |-> candidate.searchTerm, countryCode |-> countryCode,
              category |-> candidate.category]
        ELSE [searchTerm |-> candidate.searchTerm, countryCode |-> countryCode]]

\* dashboardUrl, lines 42-44.
dashboardUrl(estimateId) ==
    <<"https://dashboard.lune.co/calculate-emissions/everyday-purchases/">>
        \o estimateId \o <<"/results">>

\* calculateEmissions, lines 121-153: the Ok value built from a resolved estimate.
EstimateValue(res, currency) ==
    IF ~res.mass
    THEN [emissionsTCo2 |-> <<>>, emissionFactorName |-> <<>>,
          emissionFactorSource |-> <<>>, emissionFactorIntensity |-> <<>>,
          emissionFactorNumeratorUnit |-> <<>>, emissionFactorDenominatorUnit |-> <<>>,
          requestedCurrency |-> currency, exchangeRate |-> <<>>,
          score |-> Undefined, dashboardUrl |-> <<>>]
    ELSE LET exchangeRate == IF res.fields.exchangeRate = Undefined
                             THEN 1 ELSE res.fields.exchangeRate
             emissionFactor == res.fields.emissionFactor
         IN [emissionsTCo2 |-> res.fields.amount,
             emissionFactorName |-> emissionFactor.name,
             emissionFactorSource |-> emissionFactor.source,
             emissionFactorIntensity |-> <<ToString(emissionFactor.co2E * exchangeRate)>>,
             emissionFactorNumeratorUnit |-> emissionFactor.numeratorUnit,
             emissionFactorDenominatorUnit |-> emissionFactor.denominatorUnit,
             requestedCurrency |-> currency,
             exchangeRate |-> <<ToString(exchangeRate)>>,
             score |-> res.score,
             dashboardUrl |-> dashboardUrl(res.fields.id)]

\* The loop without its `break`: a successful call is followed by another call
\* while attempts are left.
AfterCallNoBreak(rc, res, currency) ==
    IF res.kind = "error"
    THEN IF res.statusCode
         THEN [do |-> "return", value |-> Err(res.description)]
         ELSE IF rc < MAX_RETRIES - 1
              THEN [do |-> "retry", value |-> NoReturn]
              ELSE [do |-> "return", value |-> Err(res.description)]
    ELSE IF rc < MAX_RETRIES - 1
         THEN [do |-> "retry", value |-> NoReturn]
         ELSE [do |-> "return", value |-> Ok(EstimateValue(res, currency))]

\* The loop giving up one attempt early.
AfterCallGiveUpEarly(rc, res, currency) ==
    IF res.kind = "error"
    THEN IF res.statusCode
         THEN [do |-> "return", value |-> Err(res.description)]
         ELSE IF rc < MAX_RETRIES - 2
              THEN [do |-> "retry", value |-> NoReturn]
              ELSE [do |-> "return", value |-> Err(res.description)]
    ELSE [do |-> "return", value |-> Ok(EstimateValue(res, currency))]

\* The loop without the statusCode test: every error is retried.
AfterCallRetryStatus(rc, res, currency) ==
    IF res.kind = "error"
    THEN IF rc < MAX_RETRIES - 1
         THEN [do |-> "retry", value |-> NoReturn]
         ELSE [do |-> "return", value |-> Err(res.description)]
    ELSE [do |-> "return", value |-> Ok(EstimateValue(res, currency))]

\* The loop backing off after the last attempt too, before it gives up.
AfterCallBackoffAfterLast(rc, res, currency) ==
    IF res.kind = "error"
    THEN IF res.statusCode
         THEN [do |-> "return", value |-> Err(res.description)]
         ELSE [do |-> "retry", value |-> NoReturn]
    ELSE [do |-> "return", value |-> Ok(EstimateValue(res, currency))]

\* calculateEmissions, lines 103-153: what the function does with the call that
\* just resolved, at loop counter rc: return a Result, or back off and call again.
AfterCall(rc, res, currency) ==
    IF res.kind = "error"
    THEN IF res.statusCode
         THEN [do |-> "return", value |-> Err(res.description)]
         ELSE IF rc < MAX_RETRIES - 1
              THEN [do |-> "retry", value |-> NoReturn]
              ELSE [do |-> "return", value |-> Err(res.description)]
    ELSE [do |-> "return", value |-> Ok(EstimateValue(res, currency))]

\* --------------------------------------------------------------- row estimator
\* main, lines 275-319: the entry a candidate task pushes once calculateEmissions
\* has returned.  `cand` is not a field of the program's entry: it records which
\* candidate pushed the entry, so that properties can speak about it.
ResultEntry(c, candidate, ret) ==
    IF ret.tag = "err"
    THEN [name |-> <<"Error: ">> \o ret.error, emissions |-> <<>>, source |-> <<>>,
          url |-> <<>>, searchTermUsed |-> <<>>, categoryUsed |-> <<>>, score |-> Null,
          emissionFactorNumeratorUnit |-> <<>>, emissionFactorDenominatorUnit |-> <<>>,
          emissionFactorIntensity |-> <<>>, exchangeRate |-> <<>>,
          requestedCurrency |-> <<>>, cand |-> c]
    ELSE [name |-> ret.value.emissionFactorName, emissions |-> ret.value.emissionsTCo2,
          source |-> ret.value.emissionFactorSource, url |-> ret.value.dashboardUrl,
          searchTermUsed |-> candidate.searchTerm,
          categoryUsed |-> IF candidate.category \in {UndefinedCategory, <<>>}
                           THEN <<>> ELSE candidate.category,
          score |-> ret.value.score,
          emissionFactorNumeratorUnit |-> ret.value.emissionFactorNumeratorUnit,
          emissionFactorDenominatorUnit |-> ret.value.emissionFactorDenominatorUnit,
          emissionFactorIntensity |-> ret.value.emissionFactorIntensity,
          exchangeRate |-> ret.value.exchangeRate,
          requestedCurrency |-> ret.value.requestedCurrency, cand |-> c]

\* ---------------------------------------------------------------- ranker/merger
HasScore(e) == e.score # Null /\ e.score # Undefined

noConfidenceResults(results) == SelectSeq(results, LAMBDA e : ~HasScore(e))

withConfidenceResults(results) == SelectSeq(results, HasScore)

\* Array.prototype.sort with (a, b) => a.score - b.score: a stable sort, which
\* is insertion of each element behind the elements that do not compare greater.
InsertByScore(sorted, e) ==
    LET keep == {k \in 1 .. Len(sorted) : sorted[k].score - e.score <= 0}
        n == Cardinality({k \in 1 .. Len(sorted) : \A j \in 1 .. k : j \in keep})
    IN SubSeq(sorted, 1, n) \o <<e>> \o SubSeq(sorted, n + 1, Len(sorted))

RECURSIVE SortByScore(_)
SortByScore(results) ==
    IF results = <<>> THEN <<>>
    ELSE InsertByScore(SortByScore(SubSeq(results, 1, Len(results) - 1)),
                       results[Len(results)])

\* The ranking without the sort of the scored results.
RankResultsUnsorted(results) ==
    withConfidenceResults(results) \o noConfidenceResults(results)

\* The ranking as it would be if the scored partition were filtered by the
\* truthiness of the score: an outcome of score 0 is in neither partition.
RankResultsTruthyScore(results) ==
    SortByScore(SelectSeq(results, LAMBDA e : HasScore(e) /\ e.score # 0))
        \o noConfidenceResults(results)

\* main, lines 326-337.
RankResults(results) ==
    SortByScore(withConfidenceResults(results)) \o noConfidenceResults(results)

\* The name of a rank-indexed column: `${label} (${idx})`.
Key(label, idx) == label \o " (" \o ToString(idx) \o ")"

\* The columns as they would be if the rank index were the array index.
ResultColumnsZeroBased(e, idx) ==
    (Key("Emissions (tCO2e)", idx - 1) :> e.emissions)
    @@ (Key("Emission factor name", idx - 1) :> e.name)
    @@ (Key("Emission factor source", idx - 1) :> e.source)
    @@ (Key("Emission factor intensity", idx - 1) :> e.emissionFactorIntensity)
    @@ (Key("Emission factor intensity unit", idx - 1) :>
            e.emissionFactorNumeratorUnit \o <<"CO2e/">> \o e.requestedCurrency)
    @@ (Key("Emission factor original unit", idx - 1) :>
            e.emissionFactorNumeratorUnit \o <<"CO2e/">> \o e.emissionFactorDenominatorUnit)
    @@ (Key("Exchange rate", idx - 1) :> e.exchangeRate)
    @@ (Key("Confidence score", idx - 1) :>
            IF HasScore(e) /\ e.score # 0 THEN <<ToString(e.score)>> ELSE <<>>)
    @@ (Key("Dashboard URL", idx - 1) :> e.url)
    @@ (Key("Search term used", idx - 1) :> e.searchTermUsed)
    @@ (Key("Category used", idx - 1) :> e.categoryUsed)

\* main, lines 358-368: the columns the reducer adds for the result at rank idx.
ResultColumns(e, idx) ==
    (Key("Emissions (tCO2e)", idx) :> e.emissions)
    @@ (Key("Emission factor name", idx) :> e.name)
    @@ (Key("Emission factor source", idx) :> e.source)
    @@ (Key("Emission factor intensity", idx) :> e.emissionFactorIntensity)
    @@ (Key("Emission factor intensity unit", idx) :>
            e.emissionFactorNumeratorUnit \o <<"CO2e/">> \o e.requestedCurrency)
    @@ (Key("Emission factor original unit", idx) :>
            e.emissionFactorNumeratorUnit \o <<"CO2e/">> \o e.emissionFactorDenominatorUnit)
    @@ (Key("Exchange rate", idx) :> e.exchangeRate)
    @@ (Key("Confidence score", idx) :>
            IF HasScore(e) /\ e.score # 0 THEN <<ToString(e.score)>> ELSE <<>>)
    @@ (Key("Dashboard URL", idx) :> e.url)
    @@ (Key("Search term used", idx) :> e.searchTermUsed)
    @@ (Key("Category used", idx) :> e.categoryUsed)

\* main, lines 339-372: sortedPermutationResults.reduce; `{...acc, key: value}`
\* keeps acc's columns except those the new keys replace.
RECURSIVE Reduce(_, _, _)
Reduce(acc, sorted, k) ==
    IF k > Len(sorted) THEN acc
    ELSE Reduce(ResultColumns(sorted[k], k) @@ acc, sorted, k + 1)

ResultObj(sorted) == Reduce(<<>>, sorted, 1)

\* main, lines 374-377: `{...row, ...resultObj}`.  `index` is not a column: it
\* records which input record the output row belongs to, and `row` is the input
\* record spread into `columns`; a column of resultObj replaces one of the row.
OutputRow(n, row, sorted) ==
    [index |-> n, row |-> row, columns |-> ResultObj(sorted) @@ row]

\* ------------------------------------------------------- chunked output writer
\* Math.floor and Math.ceil of n / d, for n >= 0 and d >= 1.
Floor(n, d) == n \div d

Ceil(n, d) == (n + d - 1) \div d

\* main, line 383.
ShouldWrite(n, rows, total) == ((n + 1) % rows = 0 /\ n # 0) \/ n = total - 1

\* The suffix computed with Math.ceil at every flush.
SuffixAlwaysCeil(n, rows, total) == Ceil(n, rows)

\* The value of the option -o.
output == <<"output">>

\* main, line 386.
outputFilename(suffix) == output \o <<"-", ToString(suffix), ".csv">>

\* main, lines 384-385.
Suffix(n, rows, total) == IF n = total - 1 THEN Ceil(n, rows) ELSE Floor(n, rows)

\* ------------------------------------------------------------------- actions
\* main, lines 235-324: one loop iteration up to `await Promise.all`: the
\* candidates are built and every candidate task runs to its first service call.
Dispatch(n) ==
    LET perms == RowPermutations(source[n + 1])
        tasks == 1 .. Len(perms)
    IN /\ i' = n
       /\ searchPermutations' = perms
       /\ requests' = [c \in tasks |->
                          Request(perms[c], RowAmount(source[n + 1]),
                                  RowCurrency(source[n + 1]), RowCountryCode(source[n + 1]))]
       /\ permutationsResults' = <<>>
       /\ tpc' = [c \in tasks |-> "call"]
       /\ retryCount' = [c \in tasks |-> 0]
       /\ result' = [c \in tasks |-> NoResult]
       /\ returned' = [c \in tasks |-> NoReturn]
       /\ calls' = [c \in tasks |-> 1]
       /\ failures' = [c \in tasks |-> 0]
       /\ waited' = [c \in tasks |-> 0]
       /\ pc' = "await"

Finished ==
    /\ pc' = "done"
    /\ UNCHANGED <<i, searchPermutations, requests, permutationsResults, tpc, retryCount,
                   result, returned, calls, failures, waited>>

\* process.exit(1), or program.help(): the run is over.
Exit ==
    /\ pc' = "exit"
    /\ UNCHANGED <<i, searchPermutations, requests, permutationsResults, tpc, retryCount,
                   result, returned, calls, failures, waited>>

\* The checks as they would be if main() went straight to the loader.
PreconditionsNeverChecked(p) == TRUE

\* main, lines 175-200: the run has an input file argument, an API key and the
\* four required options.
PreconditionsHold(p) ==
    /\ p.args
    /\ p.apiKey
    /\ p.searchTermColumns
    /\ p.monetaryAmountColumn
    /\ p.currencyColumn
    /\ p.countryCodeColumn

\* main, lines 219-225: the columns the loader is asked for.
columns ==
    searchTermColumnsArr
        \o <<monetaryAmountColumn, currencyColumn, countryCodeColumn>>
        \o categoryColumnsArr

\* utils passStringRecord: a record passes when every listed property is in it
\* (a property that csv-parse read is a string).
passStringRecord(value, properties) ==
    IF \E k \in 1 .. Len(properties) : properties[k] \notin DOMAIN value
    THEN LET k == CHOOSE k \in 1 .. Len(properties) :
                      /\ properties[k] \notin DOMAIN value
                      /\ \A j \in 1 .. k - 1 : properties[j] \in DOMAIN value
         IN Err(<<"Property ", properties[k], " is not a string: undefined">>)
    ELSE Ok(value)

\* The array check as it would be without the test for an empty array.
passArrayAllowEmpty(value, properties) ==
    IF \E k \in 1 .. Len(value) : passStringRecord(value[k], properties).tag = "err"
    THEN Err(<<"One or more items failed validation">>)
    ELSE Ok(value)

\* utils passArray, with passStringRecord as the validator of the items.
passArray(value, properties) ==
    IF Len(value) = 0 THEN Err(<<"The array is empty">>)
    ELSE IF \E k \in 1 .. Len(value) : passStringRecord(value[k], properties).tag = "err"
    THEN Err(<<"One or more items failed validation">>)
    ELSE Ok(value)

\* utils loadCsv: readFileChecked, then parseCsvChecked, then passArray.
loadCsv(readable, parsed, fields) ==
    IF ~readable THEN Err(<<"Failed to load or parse">>) ELSE passArray(parsed, fields)

\* main, lines 174-230: the preconditions are checked in turn; when all hold the
\* loader is called and awaited, and the run exits on its error.
Start ==
    /\ pc = "main"
    /\ IF ~PreconditionsHold(precond)
       THEN pc' = "exit" /\ source' = source
       ELSE LET loaded == loadCsv(precond.csvFile, file, columns)
            IN IF loaded.tag = "err"
               THEN pc' = "exit" /\ source' = source
               ELSE pc' = "start" /\ source' = loaded.value
    /\ UNCHANGED <<searchTermColumnsArr, categoryColumnsArr, outputFileRows, file, precond,
                   i, searchPermutations, requests, tpc, retryCount, result, returned,
                   calls, failures, waited, permutationsResults, sortedPermutationResults,
                   out, written, faults>>

\* main, lines 232-235: the loader has returned the records; the loop starts.
Begin ==
    /\ pc = "start"
    /\ IF totalRows > 0 THEN Dispatch(0) ELSE Finished
    /\ UNCHANGED <<searchTermColumnsArr, categoryColumnsArr, outputFileRows, file, source,
                   precond, sortedPermutationResults, out, written, faults>>

\* The call's completion as it would be if a failed candidate cancelled its
\* siblings.
RespondFailFast(c, res) ==
    /\ pc = "await"
    /\ tpc[c] = "call"
    /\ (res.kind = "error" /\ ~res.statusCode) => faults > 0
    /\ LET transient == res.kind = "error" /\ ~res.statusCode
           after == AfterCall(retryCount[c], res, requests[c].value.currency)
       IN /\ result' = [result EXCEPT ![c] = res]
          /\ faults' = IF transient THEN faults - 1 ELSE faults
          /\ failures' = [failures EXCEPT ![c] = IF transient THEN @ + 1 ELSE @]
          /\ IF after.do = "retry"
             THEN /\ tpc' = [tpc EXCEPT ![c] = "sleep"]
                  /\ waited' = [waited EXCEPT ![c] = @ + RetryDelayMs]
                  /\ UNCHANGED <<returned, permutationsResults>>
             ELSE /\ tpc' = IF after.value.tag = "err"
                            THEN [d \in DOMAIN tpc |-> "done"]
                            ELSE [tpc EXCEPT ![c] = "done"]
                  /\ waited' = waited
                  /\ returned' = [returned EXCEPT ![c] = after.value]
                  /\ permutationsResults' =
                        Append(permutationsResults,
                               ResultEntry(c, searchPermutations[c], after.value))
    /\ UNCHANGED <<pc, searchTermColumnsArr, categoryColumnsArr, outputFileRows, file, source, precond,
                   i, searchPermutations, requests, retryCount, calls,
                   sortedPermutationResults, out, written>>

\* A service call of candidate c resolves with res; calculateEmissions goes on
\* (lines 103-153) and, when it returns, the task pushes its entry (275-319).
Respond(c, res) ==
    /\ pc = "await"
    /\ tpc[c] = "call"
    /\ (res.kind = "error" /\ ~res.statusCode) => faults > 0
    /\ LET transient == res.kind = "error" /\ ~res.statusCode
           after == AfterCall(retryCount[c], res, requests[c].value.currency)
       IN /\ result' = [result EXCEPT ![c] = res]
          /\ faults' = IF transient THEN faults - 1 ELSE faults
          /\ failures' = [failures EXCEPT ![c] = IF transient THEN @ + 1 ELSE @]
          /\ IF after.do = "retry"
             THEN /\ tpc' = [tpc EXCEPT ![c] = "sleep"]
                  /\ waited' = [waited EXCEPT ![c] = @ + RetryDelayMs]
                  /\ UNCHANGED <<returned, permutationsResults>>
             ELSE /\ tpc' = [tpc EXCEPT ![c] = "done"]
                  /\ waited' = waited
                  /\ returned' = [returned EXCEPT ![c] = after.value]
                  /\ permutationsResults' =
                        Append(permutationsResults,
                               ResultEntry(c, searchPermutations[c], after.value))
    /\ UNCHANGED <<pc, searchTermColumnsArr, categoryColumnsArr, outputFileRows, file, source, precond,
                   i, searchPermutations, requests, retryCount, calls,
                   sortedPermutationResults, out, written>>

\* The timer's continuation as it would be if the loop did not count its
\* attempts.
WakeSameAttempt(c) ==
    /\ pc = "await"
    /\ tpc[c] = "sleep"
    /\ calls' = [calls EXCEPT ![c] = @ + 1]
    /\ tpc' = [tpc EXCEPT ![c] = "call"]
    /\ UNCHANGED <<pc, searchTermColumnsArr, categoryColumnsArr, outputFileRows, file, source, precond,
                   i, searchPermutations, requests, retryCount, result, returned, failures, waited,
                   permutationsResults, sortedPermutationResults, out, written, faults>>

\* The 500 ms timer of candidate c fires (line 111); the loop continues with
\* retryCount++ and, while retryCount < MAX_RETRIES, with the next service call
\* (lines 95-101).  Otherwise the loop is left with the failed result and
\* result!.unwrap() (line 121) throws: the candidate's task rejects.
Wake(c) ==
    /\ pc = "await"
    /\ tpc[c] = "sleep"
    /\ retryCount' = [retryCount EXCEPT ![c] = @ + 1]
    /\ IF retryCount[c] + 1 < MAX_RETRIES
       THEN /\ calls' = [calls EXCEPT ![c] = @ + 1]
            /\ tpc' = [tpc EXCEPT ![c] = "call"]
       ELSE /\ calls' = calls
            /\ tpc' = [tpc EXCEPT ![c] = "threw"]
    /\ UNCHANGED <<pc, searchTermColumnsArr, categoryColumnsArr, outputFileRows, file, source, precond,
                   i, searchPermutations, requests, result, returned, failures, waited,
                   permutationsResults, sortedPermutationResults, out, written, faults>>

\* The join as it would be if the row of a failed candidate were not kept.
AfterJoinSkipFailed ==
    /\ pc = "await"
    /\ \A c \in DOMAIN tpc : tpc[c] = "done"
    /\ LET sorted == RankResults(permutationsResults)
           failed == \E k \in 1 .. Len(sorted) : sorted[k].score = Null
       IN /\ sortedPermutationResults' = sorted
          /\ out' = IF failed THEN out ELSE Append(out, OutputRow(i, source[i + 1], sorted))
    /\ IF ShouldWrite(i, outputFileRows, totalRows)
       THEN /\ pc' = "write"
            /\ UNCHANGED <<i, searchPermutations, requests, permutationsResults, tpc, retryCount,
                           result, returned, calls, failures, waited>>
       ELSE Dispatch(i + 1)
    /\ UNCHANGED <<searchTermColumnsArr, categoryColumnsArr, outputFileRows, file, source,
                   precond, written, faults>>

\* The join as a race: the first settled candidate lets the row go on.
AfterJoinRace ==
    /\ pc = "await"
    /\ \E c \in DOMAIN tpc : tpc[c] = "done"
    /\ LET sorted == RankResults(permutationsResults)
       IN /\ sortedPermutationResults' = sorted
          /\ out' = Append(out, OutputRow(i, source[i + 1], sorted))
    /\ IF ShouldWrite(i, outputFileRows, totalRows)
       THEN /\ pc' = "write"
            /\ UNCHANGED <<i, searchPermutations, requests, permutationsResults, tpc, retryCount,
                           result, returned, calls, failures, waited>>
       ELSE Dispatch(i + 1)
    /\ UNCHANGED <<searchTermColumnsArr, categoryColumnsArr, outputFileRows, file, source, precond,
                   written, faults>>

\* The join as it would be if only the last write were awaited.
AfterJoinWriteNotAwaited ==
    /\ pc = "await"
    /\ \A c \in DOMAIN tpc : tpc[c] = "done"
    /\ LET sorted == RankResults(permutationsResults)
       IN /\ sortedPermutationResults' = sorted
          /\ out' = Append(out, OutputRow(i, source[i + 1], sorted))
    /\ IF i = totalRows - 1
       THEN /\ pc' = "write"
            /\ UNCHANGED <<i, searchPermutations, requests, permutationsResults, tpc, retryCount,
                           result, returned, calls, failures, waited>>
       ELSE Dispatch(i + 1)
    /\ UNCHANGED <<searchTermColumnsArr, categoryColumnsArr, outputFileRows, file, source, precond,
                   written, faults>>

\* The join as it would be if a failed candidate ended the run.
AfterJoinAbortOnFailure ==
    /\ pc = "await"
    /\ \A c \in DOMAIN tpc : tpc[c] = "done"
    /\ LET sorted == RankResults(permutationsResults)
           failed == \E k \in 1 .. Len(sorted) : sorted[k].score = Null
       IN /\ sortedPermutationResults' = sorted
          /\ out' = IF failed THEN out ELSE Append(out, OutputRow(i, source[i + 1], sorted))
          /\ IF failed
             THEN Exit
             ELSE IF ShouldWrite(i, outputFileRows, totalRows)
             THEN /\ pc' = "write"
                  /\ UNCHANGED <<i, searchPermutations, requests, permutationsResults, tpc,
                                 retryCount, result, returned, calls, failures, waited>>
             ELSE Dispatch(i + 1)
    /\ UNCHANGED <<searchTermColumnsArr, categoryColumnsArr, outputFileRows, file, source, precond,
                   written, faults>>

\* Promise.all resolves (line 324): the results are ranked and merged, the output
\* row is pushed (326-377); then either writeFile is called (383-388) or the loop
\* goes on to the next record.
AfterJoin ==
    /\ pc = "await"
    /\ \A c \in DOMAIN tpc : tpc[c] = "done"
    /\ LET sorted == RankResults(permutationsResults)
       IN /\ sortedPermutationResults' = sorted
          /\ out' = Append(out, OutputRow(i, source[i + 1], sorted))
    /\ IF ShouldWrite(i, outputFileRows, totalRows)
       THEN /\ pc' = "write"
            /\ UNCHANGED <<i, searchPermutations, requests, permutationsResults, tpc, retryCount,
                           result, returned, calls, failures, waited>>
       ELSE Dispatch(i + 1)
    /\ UNCHANGED <<searchTermColumnsArr, categoryColumnsArr, outputFileRows, file, source, precond,
                   written, faults>>

\* writeFile resolves (line 388): the accumulator is reset (390) and the loop
\* goes on to the next record, or ends.
WriteDone ==
    /\ pc = "write"
    /\ written' = Append(written,
                         [suffix |-> Suffix(i, outputFileRows, totalRows),
                          name |-> outputFilename(Suffix(i, outputFileRows, totalRows)),
                          rows |-> out])
    /\ out' = <<>>
    /\ IF i + 1 < totalRows THEN Dispatch(i + 1) ELSE Finished
    /\ UNCHANGED <<searchTermColumnsArr, categoryColumnsArr, outputFileRows, file, source, precond,
                   sortedPermutationResults, faults>>

\* main, lines 236-246, on its own: the candidates of the first record.
Generate ==
    /\ pc = "generate"
    /\ searchPermutations' = RowPermutations(source[1])
    /\ pc' = "generated"
    /\ UNCHANGED <<searchTermColumnsArr, categoryColumnsArr, outputFileRows, file, source,
                   precond, i, requests, tpc, retryCount, result, returned, calls, failures, waited,
                   permutationsResults, sortedPermutationResults, out, written, faults>>

Next ==
    \/ Begin
    \/ \E c \in DOMAIN tpc : \E res \in Responses : Respond(c, res)
    \/ \E c \in DOMAIN tpc : Wake(c)
    \/ AfterJoin
    \/ WriteDone

\* ------------------------------------------------------------ initial states
\* The records of a run: every cell holds its own value, between spaces and
\* with a comma in it.
Cell(r, column) == <<" ", column, ",", ToString(r), " ">>

\* main, lines 219-225: the columns the loader requires.
Columns(s, c) ==
    SubSeq(SearchTermColumnNames, 1, s)
        \o <<monetaryAmountColumn, currencyColumn, countryCodeColumn>>
        \o SubSeq(CategoryColumnNames, 1, c)

ColumnSet(s, c) == {Columns(s, c)[k] : k \in 1 .. Len(Columns(s, c))}

Rows(r, s, c) == [n \in 1 .. r |-> [column \in ColumnSet(s, c) |-> Cell(n, column)]]

\* Every precondition of main() is met.
PreconditionNames ==
    {"args", "apiKey", "searchTermColumns", "monetaryAmountColumn", "currencyColumn",
     "countryCodeColumn", "csvFile"}

AllMet == [p \in PreconditionNames |-> TRUE]

InitRun(r, s, c, rows, f) ==
    /\ pc = "start"
    /\ searchTermColumnsArr = SubSeq(SearchTermColumnNames, 1, s)
    /\ categoryColumnsArr = SubSeq(CategoryColumnNames, 1, c)
    /\ outputFileRows = rows
    /\ file = Rows(r, s, c)
    /\ source = Rows(r, s, c)
    /\ precond = AllMet
    /\ i = 0
    /\ searchPermutations = <<>>
    /\ requests = <<>>
    /\ tpc = <<>>
    /\ retryCount = <<>>
    /\ result = <<>>
    /\ returned = <<>>
    /\ calls = <<>>
    /\ failures = <<>>
    /\ waited = <<>>
    /\ permutationsResults = <<>>
    /\ sortedPermutationResults = <<>>
    /\ out = <<>>
    /\ written = <<>>
    /\ faults = f

\* One record with one category column: one candidate per search-term column,
\* all running concurrently, and at most one call of the run fails without a
\* status code.
Init == \E s \in 1 .. MaxSearchTermColumns : InitRun(1, s, 1, 1, 1)

Spec == Init /\ [][Next]_vars

\* One record of one search term; the service may fail on every call.
InitAdapter ==
    \E c \in 0 .. MaxCategoryColumns : InitRun(1, 1, c, 1, MAX_RETRIES)

SpecAdapter == InitAdapter /\ [][Next]_vars

\* Several records of one candidate each, written in chunks.
InitWriter ==
    \E r \in 1 .. MaxRows, rows \in 1 .. MaxOutputFileRows :
        InitRun(r, 1, 0, rows, MaxFaults)

SpecWriter == InitWriter /\ [][Next]_vars

\* Several records of one candidate each, where a candidate's calls can fail
\* without a status code until its attempts are exhausted.
InitRun5 ==
    \E r \in 1 .. MaxRows, rows \in 1 .. MaxOutputFileRows :
        InitRun(r, 1, 0, rows, MAX_RETRIES)

SpecRun == InitRun5 /\ [][Next]_vars

\* A record of the input file with the columns cols.
InputRecord(n, cols) == [column \in cols |-> Cell(n, column)]

\* The columns a record of the input file can have: the required ones, with or
\* without a category column, the required ones but the currency, and the
\* required ones with another column, which can have the name of a column of
\* the output.
RecordColumns ==
    {ColumnSet(1, 0), ColumnSet(1, 1), ColumnSet(1, 0) \ {currencyColumn},
     ColumnSet(1, 0) \cup {"notes"}, ColumnSet(1, 0) \cup {Key("Emission factor name", 1)}}

Files ==
    UNION {{[n \in 1 .. r |-> InputRecord(n, cols[n])] : cols \in [1 .. r -> RecordColumns]} :
              r \in 0 .. MaxFileRecords}

\* main() from its first line, in an environment that meets any subset of its
\* preconditions, with or without a category column configured, on an input
\* file of any of these records.
InitMain ==
    /\ pc = "main"
    /\ precond \in [PreconditionNames -> BOOLEAN]
    /\ searchTermColumnsArr = SubSeq(SearchTermColumnNames, 1, 1)
    /\ categoryColumnsArr \in {<<>>, SubSeq(CategoryColumnNames, 1, 1)}
    /\ outputFileRows = 1
    /\ file \in Files
    /\ source = <<>>
    /\ i = 0
    /\ searchPermutations = <<>>
    /\ requests = <<>>
    /\ tpc = <<>>
    /\ retryCount = <<>>
    /\ result = <<>>
    /\ returned = <<>>
    /\ calls = <<>>
    /\ failures = <<>>
    /\ waited = <<>>
    /\ permutationsResults = <<>>
    /\ sortedPermutationResults = <<>>
    /\ out = <<>>
    /\ written = <<>>
    /\ faults = 1

NextMain == Start \/ Next

SpecMain == InitMain /\ [][NextMain]_vars

\* Amount cells as files hold them: with a decimal comma, with a thousands
\* separator, and plain.
Amounts ==
    {<<"1", "0", ",", "0", "0">>, <<"1", ",", "0", "0", "0", ".", "5">>,
     <<"1", "0", ".", "0", "0">>}

\* One record of one search term and no category column: a purchase of coffee
\* in USD in the USA, for each of the amounts; a candidate's calls can fail
\* without a status code until its attempts are exhausted.
InitScenario ==
    \E amount \in Amounts :
        /\ pc = "start"
        /\ searchTermColumnsArr = SubSeq(SearchTermColumnNames, 1, 1)
        /\ categoryColumnsArr = <<>>
        /\ outputFileRows = 1
        /\ file = <<(SearchTermColumnNames[1] :> <<"Coffee">>)
                     @@ (monetaryAmountColumn :> amount)
                     @@ (currencyColumn :> <<"USD">>)
                     @@ (countryCodeColumn :> <<"USA">>)>>
        /\ source = file
        /\ precond = AllMet
        /\ i = 0
        /\ searchPermutations = <<>>
        /\ requests = <<>>
        /\ tpc = <<>>
        /\ retryCount = <<>>
        /\ result = <<>>
        /\ returned = <<>>
        /\ calls = <<>>
        /\ failures = <<>>
        /\ waited = <<>>
        /\ permutationsResults = <<>>
        /\ sortedPermutationResults = <<>>
        /\ out = <<>>
        /\ written = <<>>
        /\ faults = MAX_RETRIES

SpecScenario == InitScenario /\ [][Next]_vars

\* The permutation generator alone, on one record of arbitrary cell values.
InitGen ==
    \E s \in 1 .. MaxSearchTermColumns, c \in 0 .. MaxCategoryColumns :
        \E row \in [ColumnSet(s, c) -> Values] :
            /\ row[monetaryAmountColumn] = <<>>
            /\ row[currencyColumn] = <<>>
            /\ row[countryCodeColumn] = <<>>
            /\ pc = "generate"
            /\ searchTermColumnsArr = SubSeq(SearchTermColumnNames, 1, s)
            /\ categoryColumnsArr = SubSeq(CategoryColumnNames, 1, c)
            /\ outputFileRows = 1
            /\ file = <<row>>
            /\ source = <<row>>
            /\ precond = AllMet
            /\ i = 0
            /\ searchPermutations = <<>>
            /\ requests = <<>>
            /\ tpc = <<>>
            /\ retryCount = <<>>
            /\ result = <<>>
            /\ returned = <<>>
            /\ calls = <<>>
            /\ failures = <<>>
            /\ waited = <<>>
            /\ permutationsResults = <<>>
            /\ sortedPermutationResults = <<>>
            /\ out = <<>>
            /\ written = <<>>
            /\ faults = 0

SpecGen == InitGen /\ [][Generate]_vars

\* The characters of a cell: a space, a comma and an ordinary character.
Chars == {" ", ",", "1"}

Texts == UNION {[1 .. n -> Chars] : n \in 0 .. MaxTextLen}

\* The extraction of a record's fields alone: one record with one search-term
\* and one category column, whose amount cell and whose other cells hold
\* arbitrary text.
InitFields ==
    \E amount \in Texts, other \in Texts :
        /\ pc = "start"
        /\ searchTermColumnsArr = SubSeq(SearchTermColumnNames, 1, 1)
        /\ categoryColumnsArr = SubSeq(CategoryColumnNames, 1, 1)
        /\ outputFileRows = 1
        /\ file = <<[column \in ColumnSet(1, 1) |->
                        IF column = monetaryAmountColumn THEN amount ELSE other]>>
        /\ source = file
        /\ precond = AllMet
        /\ i = 0
        /\ searchPermutations = <<>>
        /\ requests = <<>>
        /\ tpc = <<>>
        /\ retryCount = <<>>
        /\ result = <<>>
        /\ returned = <<>>
        /\ calls = <<>>
        /\ failures = <<>>
        /\ waited = <<>>
        /\ permutationsResults = <<>>
        /\ sortedPermutationResults = <<>>
        /\ out = <<>>
        /\ written = <<>>
        /\ faults = 0

SpecFields == InitFields /\ [][Begin]_vars

\* ================================================================ properties
Tasks == DOMAIN tpc

\* C1: a candidate whose calls failed k < MAX_RETRIES times without a status
\* code and whose next call succeeded has returned Ok, after exactly k + 1
\* calls: once a call has succeeded the task is finished and calls no more.
C1_SuccessAfterTransientFailures ==
    \A c \in Tasks :
        result[c].kind = "estimate" =>
            /\ tpc[c] = "done"
            /\ returned[c].tag = "ok"
            /\ failures[c] < MAX_RETRIES
            /\ calls[c] = failures[c] + 1

C1_Witness ==
    \E c \in Tasks :
        /\ result[c].kind = "estimate"
        /\ failures[c] = MAX_RETRIES - 1
        /\ calls[c] = MAX_RETRIES
        /\ returned[c].tag = "ok"

\* C2: a candidate all of whose calls failed without a status code is called
\* MAX_RETRIES times and never more, does not give up earlier, and returns
\* Err with the description of the last error.
C2_ExhaustedAfterMaxRetries ==
    \A c \in Tasks :
        /\ calls[c] <= MAX_RETRIES
        /\ (tpc[c] = "done" /\ failures[c] = calls[c]) =>
                /\ calls[c] = MAX_RETRIES
                /\ returned[c] = Err(result[c].description)
        /\ (tpc[c] = "sleep") => failures[c] = calls[c] /\ calls[c] < MAX_RETRIES

C2_Witness ==
    \E c \in Tasks :
        /\ tpc[c] = "done"
        /\ failures[c] = MAX_RETRIES
        /\ returned[c].tag = "err"

\* C3: a call that fails with a status code ends the candidate at once with
\* Err: the task neither backs off nor calls again, so a rejection on attempt j
\* (after j - 1 failures without status code) leaves exactly j calls.
C3_StatusCodeNotRetried ==
    \A c \in Tasks :
        (result[c].kind = "error" /\ result[c].statusCode) =>
            /\ tpc[c] = "done"
            /\ returned[c] = Err(result[c].description)
            /\ calls[c] = failures[c] + 1

C3_Witness ==
    /\ \E c \in Tasks :
        /\ result[c].kind = "error" /\ result[c].statusCode
        /\ calls[c] = 1
        /\ tpc[c] = "done"
    /\ \E c \in Tasks :
        /\ result[c].kind = "error" /\ result[c].statusCode
        /\ calls[c] = 3
        /\ failures[c] = 2

\* C4: the candidates of a record are S x max(1, C) in number, search-term
\* major and category minor, with the absent category when C = 0, whatever
\* the cell values.
C4_PermutationsCrossProduct ==
    pc = "generated" =>
        LET row == source[1]
            S == Len(searchTermColumnsArr)
            C == Len(categoryColumnsArr)
            W == Max(1, C)
        IN /\ Len(searchPermutations) = S * W
           /\ \A s \in 1 .. S : \A c \in 1 .. W :
                searchPermutations[(s - 1) * W + c] =
                    [searchTerm |-> row[searchTermColumnsArr[s]],
                     category |-> IF C = 0 THEN UndefinedCategory
                                  ELSE row[categoryColumnsArr[c]]]

C4_Witness ==
    /\ pc = "generated"
    /\ Len(searchTermColumnsArr) = 2
    /\ Len(categoryColumnsArr) = 2
    /\ Len(searchPermutations) = 4
    /\ source[1]["s1"] = source[1]["s2"]
    /\ source[1]["c1"] = <<>>

\* The record whose results are in permutationsResults has been ranked: main
\* is writing the chunk that ends with it, or has ended after doing so.
Ranked == pc \in {"write", "done"} /\ totalRows > 0

\* The number of candidates whose calculateEmissions returned a defined score.
ScoredCount ==
    Cardinality({c \in Tasks : returned[c].tag = "ok" /\ returned[c].value.score >= 0})

\* C5: in the ranked sequence the outcomes with a defined score come first,
\* in non-decreasing order of score, and they are as many as the candidates
\* that returned a defined score; the outcomes without a score follow.
C5_ScoredPrefixSorted ==
    Ranked =>
        LET r == sortedPermutationResults
            n == ScoredCount
        IN /\ Len(r) = Len(searchPermutations)
           /\ \A k \in 1 .. Len(r) : (k <= n) <=> r[k].score >= 0
           /\ \A k \in 1 .. Len(r) : (k > n) <=> r[k].score \in {Null, Undefined}
           /\ \A k \in 1 .. n - 1 : r[k].score <= r[k + 1].score

C5_Witness ==
    /\ Ranked
    /\ Len(permutationsResults) = 3
    /\ permutationsResults[1].score = Null
    /\ permutationsResults[2].score = 1
    /\ permutationsResults[3].score = 0
    /\ sortedPermutationResults[1].score = 0
    /\ sortedPermutationResults[3].score = Null

\* The unscored tail of the ranked sequence.
UnscoredTail == SelectSeq(sortedPermutationResults, LAMBDA e : ~HasScore(e))

\* C6: the unscored tail of the ranked sequence lists its outcomes in the
\* order in which their candidates were generated.
C6_UnscoredTailInCandidateOrder ==
    Ranked =>
        \A k \in 1 .. Len(UnscoredTail) - 1 :
            UnscoredTail[k].cand < UnscoredTail[k + 1].cand

\* The results collection a run has when the candidates' requests complete in
\* the order in which the candidates were generated.
ResultsInCandidateOrder ==
    [c \in 1 .. Len(searchPermutations) |->
        ResultEntry(c, searchPermutations[c], returned[c])]

\* The output row of the last record that was ranked, as the files will hold it.
LastOutputRow ==
    IF pc = "write" THEN out[Len(out)]
    ELSE written[Len(written)].rows[Len(written[Len(written)].rows)]

\* C7: the merged output row is determined by the record and by what the
\* service answered to each candidate: it is the row of the run in which
\* the same answers arrive in candidate order.
C7_OutputRowIndependentOfCompletionOrder ==
    Ranked =>
        LastOutputRow.columns =
            ResultObj(RankResults(ResultsInCandidateOrder)) @@ LastOutputRow.row

\* ------------------------------------------------------------ the chunk files
FileSuffixes == {written[k].suffix : k \in 1 .. Len(written)}

\* The content of a file is what the last writeFile to its name wrote.
LastWrite(suffix) ==
    CHOOSE k \in 1 .. Len(written) :
        /\ written[k].suffix = suffix
        /\ \A j \in k + 1 .. Len(written) : written[j].suffix # suffix

FileRows(suffix) == written[LastWrite(suffix)].rows

RECURSIVE ConcatFiles(_)
ConcatFiles(suffixes) ==
    IF suffixes = {} THEN <<>>
    ELSE LET first == CHOOSE m \in suffixes : \A n \in suffixes : m <= n
         IN FileRows(first) \o ConcatFiles(suffixes \ {first})

\* C8: a complete run writes ceil(R / C) chunk files.
C8_ChunkFileCount ==
    pc = "done" =>
        /\ Cardinality(FileSuffixes) = Ceil(totalRows, outputFileRows)
        /\ Len(written) = Ceil(totalRows, outputFileRows)

\* C9: every chunk file but the last holds exactly C rows, and the last one
\* holds between 1 and C rows.
C9_ChunkSizes ==
    pc = "done" =>
        /\ \A k \in 1 .. Len(written) - 1 : Len(written[k].rows) = outputFileRows
        /\ Len(written) >= 1
        /\ Len(written[Len(written)].rows) \in 1 .. outputFileRows

\* C10: when the run has ended, the rows of the chunk files, concatenated in
\* increasing order of file suffix, are the output rows of the records
\* 0 .. R-1 in input order, each once, and the accumulator is empty.
C10_FilesReproduceInputOrder ==
    pc = "done" =>
        LET rows == ConcatFiles(FileSuffixes)
        IN /\ Len(rows) = totalRows
           /\ \A k \in 1 .. Len(rows) :
                /\ rows[k].index = k - 1
                /\ rows[k].row = source[k]
           /\ out = <<>>

C10_Witness ==
    /\ pc = "done"
    /\ totalRows = 3
    /\ outputFileRows = 2
    /\ Len(written) = 2
    /\ Len(ConcatFiles(FileSuffixes)) = 3
    /\ out = <<>>


\* ------------------------------------------------------------------- C11
\* Rows of the chunk files whose one candidate ended as a failure.
ErrorRows(rows) ==
    {k \in 1 .. Len(rows) :
        LET name == rows[k].columns[Key("Emission factor name", 1)]
        IN name # <<>> /\ Head(name) = "Error: "}

\* C11: once the preconditions have passed, whatever the candidates' outcomes
\* (success, success without mass, rejection with a status code, five failures
\* without one), the run never exits early and never stops short of its end,
\* and when it ends the chunk files together hold exactly one row per input
\* record, R rows in all.
C11_NoOutcomeAbortsOrSkips ==
    /\ pc # "exit"
    /\ pc # "done" => ENABLED Next
    /\ pc = "done" =>
            LET rows == ConcatFiles(FileSuffixes)
            IN /\ Len(rows) = totalRows
               /\ \A n \in 0 .. totalRows - 1 :
                      Cardinality({k \in 1 .. Len(rows) : rows[k].index = n}) = 1

\* A run of several records has ended; the last record's candidate failed five
\* times without a status code, an earlier one succeeded, and both have a row.
C11_Witness ==
    /\ pc = "done"
    /\ totalRows >= 2
    /\ failures[1] = MAX_RETRIES
    /\ LET rows == ConcatFiles(FileSuffixes)
       IN /\ Len(rows) = totalRows
          /\ Len(rows) \in ErrorRows(rows)
          /\ 1 \notin ErrorRows(rows)


\* ------------------------------------------------------------------- C12
\* The rows handed to writeFile so far, in the order of the writes.
RECURSIVE WrittenRows(_)
WrittenRows(k) == IF k = 0 THEN <<>> ELSE WrittenRows(k - 1) \o written[k].rows

\* The rows that have been ranked, merged and pushed, oldest first.
PushedRows == WrittenRows(Len(written)) \o out

\* While the calls of record i are being made, records 0 .. i-1 have each been
\* pushed, in input order, and no pushed row still waits for the flush it
\* triggered.
EarlierRowsFinished ==
    pc = "await" =>
        /\ Len(PushedRows) = i
        /\ \A k \in 1 .. i : PushedRows[k].index = k - 1
        /\ \A k \in 1 .. Len(out) : ~ShouldWrite(out[k].index, outputFileRows, totalRows)

\* A step that issues the calls of another record leaves a state where every
\* candidate of the current record has settled, moves to the very next record,
\* and has the current record's row pushed; when that row triggered a flush the
\* step is the completion of the write.
NextRowStep ==
    i' # i =>
        /\ \A c \in DOMAIN tpc : tpc[c] = "done"
        /\ i' = i + 1
        /\ Len(PushedRows') = i + 1
        /\ PushedRows'[i + 1].index = i
        /\ ShouldWrite(i, outputFileRows, totalRows) => (pc = "write" /\ out' = <<>>)

\* C12: records are processed one at a time in input order: no call for a
\* candidate of record n+1 is issued before every candidate of record n has
\* settled, record n has been ranked, merged and pushed, and any flush that
\* record n triggered has completed.
C12_RowsOneAtATimeInOrder == []EarlierRowsFinished /\ [][NextRowStep]_vars

\* The call of the third record is outstanding; the flush that the second record
\* triggered has completed and emptied the accumulator.
C12_Witness ==
    /\ pc = "await"
    /\ i = 2
    /\ tpc[1] = "call"
    /\ outputFileRows = 2
    /\ Len(written) = 1
    /\ Len(written[1].rows) = 2
    /\ out = <<>>


\* ------------------------------------------------------------------- C13
\* The entries that candidate c has pushed into the row's results collection.
EntriesOf(c) == {k \in 1 .. Len(permutationsResults) : permutationsResults[k].cand = c}

\* A candidate has pushed one entry when its task has settled, none before.
OneEntryPerSettledTask ==
    pc = "await" =>
        \A c \in Tasks :
            Cardinality(EntriesOf(c)) = IF tpc[c] = "done" THEN 1 ELSE 0

\* The step that ranks the row and pushes it to the accumulator.
RankingStep == pc = "await" /\ Len(out') = Len(out) + 1

JoinedBeforeRanking ==
    RankingStep =>
        /\ \A c \in Tasks : tpc[c] = "done"
        /\ Len(permutationsResults) = Len(searchPermutations)
        /\ \A c \in 1 .. Len(searchPermutations) : Cardinality(EntriesOf(c)) = 1
        /\ sortedPermutationResults' = RankResults(permutationsResults)

\* C13: for a row of N candidates ranking starts only when all N candidate
\* tasks have settled, and the results collection then holds exactly N
\* entries, exactly one per candidate, whatever the interleaving of the tasks.
C13_JoinThenExactlyOneEntryEach == []OneEntryPerSettledTask /\ [][JoinedBeforeRanking]_vars

\* Three candidates were ranked after settling in the order 3, 2, 1, the second
\* of them on its second call.
C13_Witness ==
    /\ Ranked
    /\ Len(searchPermutations) = 3
    /\ permutationsResults[1].cand = 3
    /\ permutationsResults[2].cand = 2
    /\ permutationsResults[3].cand = 1
    /\ calls[2] = 2
    /\ Len(sortedPermutationResults) = 3


\* ------------------------------------------------------------------- C14
\* The positions of candidate c's entry in the ranked sequence.
RankedEntriesOf(c) ==
    {k \in 1 .. Len(sortedPermutationResults) : sortedPermutationResults[k].cand = c}

\* C14: for a row of N candidates the first call of every candidate is issued
\* before any candidate's outcome is consumed; a candidate that fails, retries
\* or waits in backoff neither cancels nor prevents its siblings' calls (a call
\* that is outstanding can complete and a candidate in backoff can call again,
\* whatever the others do), and each candidate contributes its own outcome to
\* the ranked row.
C14_SiblingsUnaffectedByFailure ==
    /\ pc = "await" =>
            \A c \in 1 .. Len(searchPermutations) :
                /\ calls[c] >= 1
                /\ tpc[c] = "call" => ENABLED (\E res \in Responses : Respond(c, res))
                /\ tpc[c] = "sleep" => ENABLED Wake(c)
    /\ Ranked =>
            \A c \in 1 .. Len(searchPermutations) :
                /\ Cardinality(RankedEntriesOf(c)) = 1
                /\ returned[c].tag = IF result[c].kind = "estimate" THEN "ok" ELSE "err"
                /\ \A k \in RankedEntriesOf(c) :
                       sortedPermutationResults[k] =
                           ResultEntry(c, searchPermutations[c], returned[c])

\* Of three candidates the first was rejected, the second succeeded on its second
\* call and the third succeeded at once; all three are in the ranked row.
C14_Witness ==
    /\ Ranked
    /\ Len(searchPermutations) = 3
    /\ returned[1].tag = "err"
    /\ permutationsResults[1].cand = 1
    /\ calls[2] = 2
    /\ returned[2].tag = "ok"
    /\ returned[3].tag = "ok"
    /\ \A c \in 1 .. 3 : Cardinality(RankedEntriesOf(c)) = 1


\* ------------------------------------------------------------------- C15
\* The labels of the eleven rank-suffixed columns.
ColumnLabels ==
    {"Emissions (tCO2e)", "Emission factor name", "Emission factor source",
     "Emission factor intensity", "Emission factor intensity unit",
     "Emission factor original unit", "Exchange rate", "Confidence score",
     "Dashboard URL", "Search term used", "Category used"}

\* The columns of an output row that the input record does not have.
RankColumns(o) == DOMAIN o.columns \ DOMAIN o.row

\* C15: for a row of N candidates the rank indices in the output row's column
\* suffixes are exactly 1 .. N, each used once with no gap, and the row has
\* exactly eleven rank-suffixed columns per rank index, 11 x N in all.
C15_ElevenColumnsPerRank ==
    pc = "write" =>
        LET o == out[Len(out)]
            N == Len(searchPermutations)
            keys == RankColumns(o)
        IN /\ Cardinality(ColumnLabels) = 11
           /\ keys = {Key(label, idx) : label \in ColumnLabels, idx \in 1 .. N}
           /\ Cardinality(keys) = 11 * N
           /\ DOMAIN o.row \subseteq DOMAIN o.columns

\* A ranked row of three candidates carries thirty-three rank columns.
C15_Witness ==
    /\ Ranked
    /\ Len(searchPermutations) = 3
    /\ Cardinality(RankColumns(LastOutputRow)) = 33
    /\ Key("Category used", 3) \in DOMAIN LastOutputRow.columns


\* ------------------------------------------------------------------- C16
\* C16: when a precondition fails (no input file argument, no API key, one of
\* the four required column options missing, or an error from the loader) the
\* run aborts before it processes a record: no estimation call is issued, no
\* row is accumulated and no chunk file is written.
C16_PreconditionFailureAborts ==
    \/ \E p \in PreconditionNames : ~precond[p]
    \/ loadCsv(precond.csvFile, file, columns).tag = "err"
    =>  /\ pc \in {"main", "exit"}
        /\ requests = <<>>
        /\ calls = <<>>
        /\ out = <<>>
        /\ written = <<>>

\* The run has exited on the loader's error, all the other preconditions met.
C16_Witness ==
    /\ pc = "exit"
    /\ ~precond["csvFile"]
    /\ file # <<>>
    /\ \A p \in PreconditionNames \ {"csvFile"} : precond[p]
    /\ calls = <<>>
    /\ written = <<>>


\* ------------------------------------------------------------------- C17
\* The row that the ranking step has just pushed.
PushedRow == out[Len(out)]

\* The candidate whose task produced the entry at rank k.
CandidateAt(k) == searchPermutations[sortedPermutationResults[k].cand]

\* C17: every entry of the merged row, whether its candidate succeeded or
\* failed, carries the search term and the category of the candidate that
\* produced it: 'Search term used (k)' and 'Category used (k)' are that
\* candidate's search term and category (the empty string when it has none).
C17_EntryCarriesItsCandidate ==
    pc = "write" =>
        \A k \in 1 .. Len(sortedPermutationResults) :
            /\ PushedRow.columns[Key("Search term used", k)] = CandidateAt(k).searchTerm
            /\ PushedRow.columns[Key("Category used", k)] =
                    IF CandidateAt(k).category = UndefinedCategory
                    THEN <<>> ELSE CandidateAt(k).category

\* ------------------------------------------------------------------- C18
\* The result columns other than the factor name.
OtherResultLabels ==
    {"Emissions (tCO2e)", "Emission factor source", "Emission factor intensity",
     "Emission factor intensity unit", "Emission factor original unit",
     "Exchange rate", "Confidence score", "Dashboard URL"}

\* The entry at rank k comes after every scored entry.
InUnscoredTail(k) == k > ScoredCount

\* C18: a candidate whose estimation ended in failure (a rejection with a
\* status code, or five failures without one) has in the merged row an
\* unscored entry whose 'Emission factor name' is the error text and whose
\* other result columns (emissions, source, intensity, intensity unit,
\* original unit, exchange rate, confidence score, dashboard URL) are all the
\* empty string.
C18_FailureEntryEmptyFielded ==
    pc = "write" =>
        \A k \in 1 .. Len(sortedPermutationResults) :
            LET c == sortedPermutationResults[k].cand
            IN returned[c].tag = "err" =>
                /\ InUnscoredTail(k)
                /\ PushedRow.columns[Key("Emission factor name", k)] =
                        <<"Error: ">> \o result[c].description
                /\ \A label \in OtherResultLabels :
                        PushedRow.columns[Key(label, k)] = <<>>

\* ------------------------------------------------------------------- C19
\* C19: when the call succeeds with a response without mass, calculateEmissions
\* returns a success, not a failure, and does not call again; every field of
\* that success is empty, the score absent; the merged entry has all its
\* result columns empty and is ranked in the unscored tail.
C19_NoMassSuccessEmptyFielded ==
    /\ pc \in {"await", "write"} =>
          \A c \in Tasks :
              (result[c].kind = "estimate" /\ ~result[c].mass) =>
                  /\ tpc[c] = "done"
                  /\ returned[c].tag = "ok"
                  /\ returned[c].value.score = Undefined
                  /\ \A f \in DOMAIN returned[c].value \ {"score"} :
                          returned[c].value[f] = <<>>
    /\ pc = "write" =>
          \A k \in 1 .. Len(sortedPermutationResults) :
              LET c == sortedPermutationResults[k].cand
              IN (result[c].kind = "estimate" /\ ~result[c].mass) =>
                  /\ InUnscoredTail(k)
                  /\ \A label \in OtherResultLabels \cup {"Emission factor name"} :
                          PushedRow.columns[Key(label, k)] = <<>>


\* ------------------------------------------------------------------- C20
\* The positions of a text that hold something other than whitespace.
Inked(text) == {k \in 1 .. Len(text) : text[k] \notin Whitespace}

\* A text without the whitespace around it: what lies between its first and
\* its last character that is not whitespace.
Core(text) ==
    IF Inked(text) = {} THEN <<>>
    ELSE SubSeq(text,
                CHOOSE a \in Inked(text) : \A k \in Inked(text) : a <= k,
                CHOOSE b \in Inked(text) : \A k \in Inked(text) : b >= k)

\* A text without its commas, the other characters unchanged and in order.
WithoutCommas(text) == SelectSeq(text, LAMBDA ch : ch # ",")

\* C20: the monetary value sent to the service for every candidate of a record
\* is the record's amount field with the whitespace around it trimmed and every
\* comma removed, the other characters unchanged and in order; the search term,
\* the category, the currency and the country code are sent trimmed and
\* otherwise unchanged.
C20_AmountTrimmedCommasRemoved ==
    pc = "await" =>
        \A c \in DOMAIN requests :
            LET row == source[i + 1]
                request == requests[c]
            IN /\ request.value.value = WithoutCommas(Core(row[monetaryAmountColumn]))
               /\ request.value.currency = Core(row[currencyColumn])
               /\ request.merchant.countryCode = Core(row[countryCodeColumn])
               /\ request.merchant.searchTerm = Core(row[searchTermColumnsArr[1]])
               /\ "category" \in DOMAIN request.merchant =>
                      request.merchant.category = Core(row[categoryColumnsArr[1]])

\* An amount with a space before it and two commas in it is sent as its digit
\* alone; the other fields, a space and two digits, are sent as the digits.
C20_Witness ==
    /\ pc = "await"
    /\ source[1][monetaryAmountColumn] = <<" ", ",", "1", ",">>
    /\ requests[1].value.value = <<"1">>
    /\ source[1][currencyColumn] = <<" ", "1", "1">>
    /\ requests[1].value.currency = <<"1", "1">>
    /\ requests[1].merchant.category = <<"1", "1">>


\* ------------------------------------------------------------------- C21
\* C21: an input amount of "10,00" is normalized to "10.00" before it is sent
\* to the estimation service.
C21_DecimalCommaNormalized ==
    (pc = "await" /\ source[1][monetaryAmountColumn] = <<"1", "0", ",", "0", "0">>) =>
        requests[1].value.value = <<"1", "0", ".", "0", "0">>


\* ------------------------------------------------------------------- C22
\* The row index at which the k-th write was triggered: that of its last row.
FlushIndex(k) == written[k].rows[Len(written[k].rows)].index

\* Row index n reaches a chunk boundary.
AtBoundary(n) == (n + 1) % outputFileRows = 0 /\ n # 0

\* C22: a flush at row index i triggered by a chunk boundary ((i+1) mod C = 0,
\* i # 0) writes the file with suffix floor(i / C); the trailing flush of a
\* final partial chunk at i = R-1 writes the file with suffix ceil(i / C); the
\* file name is the output base name followed by '-<suffix>.csv'.
C22_SuffixOfEveryFlush ==
    \A k \in 1 .. Len(written) :
        LET n == FlushIndex(k)
        IN /\ AtBoundary(n) => written[k].suffix = n \div outputFileRows
           /\ (n = totalRows - 1 /\ ~AtBoundary(n)) =>
                  written[k].suffix = (n + outputFileRows - 1) \div outputFileRows
           /\ written[k].name = output \o <<"-", ToString(written[k].suffix), ".csv">>

\* ------------------------------------------------------------------- C23
\* The flushes of a run of R records with chunk size C, from record n on with
\* `pending` rows accumulated: where each happens, into which file, with how
\* many rows.
RECURSIVE FlushPlan(_, _, _, _)
FlushPlan(C, R, n, pending) ==
    IF n >= R THEN <<>>
    ELSE IF ShouldWrite(n, C, R)
    THEN <<[at |-> n, name |-> outputFilename(Suffix(n, C, R)), size |-> pending + 1]>>
             \o FlushPlan(C, R, n + 1, 0)
    ELSE FlushPlan(C, R, n + 1, pending + 1)

\* C23: the row indices at which a flush happens, the number of rows of each
\* chunk and the chunk file names are a function of the chunk size C and the
\* number of records R only: whatever the service answered (success, no match,
\* failure, retries), the writes made so far are the first ones of the plan
\* that C and R determine, and all of it when the run has ended.
C23_FlushesDependOnSizesOnly ==
    LET plan == FlushPlan(outputFileRows, totalRows, 0, 0)
    IN /\ Len(written) <= Len(plan)
       /\ \A k \in 1 .. Len(written) :
              /\ Len(written[k].rows) = plan[k].size
              /\ FlushIndex(k) = plan[k].at
              /\ written[k].name = plan[k].name
       /\ pc = "done" => Len(written) = Len(plan)

\* A run of three records in chunks of two has ended with its two writes; one
\* record's candidate failed, another's succeeded on a later call.
C23_Witness ==
    /\ pc = "done"
    /\ totalRows = 3
    /\ outputFileRows = 2
    /\ Len(written) = 2
    /\ ErrorRows(written[1].rows) = {1}
    /\ calls[1] > 1
    /\ returned[1].tag = "ok"

\* ------------------------------------------------------------------- C24
\* C24: in every reachable state of a run with chunk size C >= 1 the
\* accumulator of output rows holds at most C rows, and every flush empties it.
C24_AccumulatorBoundedByChunkSize ==
    /\ Len(out) <= outputFileRows
    /\ (pc = "await" /\ i > 0 /\ ShouldWrite(i - 1, outputFileRows, totalRows)) => out = <<>>
    /\ pc = "done" => out = <<>>


\* ------------------------------------------------------------------- C25
\* The columns that main() declares to the loader.
DeclaredColumns == {columns[k] : k \in 1 .. Len(columns)}

\* The loader has returned Ok: main() has gone past line 230.
LoaderReturnedOk == pc \notin {"main", "exit"}

\* C25: loadCsv(path, fields) returns Err whenever a parsed record has a field
\* that is not listed in fields, and whenever a listed field is missing from a
\* record: when it has returned Ok every record has exactly the listed fields.
C25_ExtraOrMissingFieldRejected ==
    LoaderReturnedOk => \A k \in 1 .. Len(file) : DOMAIN file[k] = DeclaredColumns

\* ------------------------------------------------------------------- C26
\* C26: the loader returns Err, and so the run aborts before any estimation
\* call or file write, when the input has no data record or when a record
\* lacks one of the declared columns; when it returns Ok the records are all
\* the records of the input, in file order.
C26_LoaderRejectsEmptyOrIncomplete ==
    /\ \/ Len(file) = 0
       \/ \E k \in 1 .. Len(file) : \E column \in DeclaredColumns : column \notin DOMAIN file[k]
       =>  /\ ~LoaderReturnedOk
           /\ requests = <<>>
           /\ calls = <<>>
           /\ out = <<>>
           /\ written = <<>>
    /\ LoaderReturnedOk => source = file

\* Every precondition is met, the first record is complete and the second has
\* no currency column: the run has exited.
C26_Witness ==
    /\ pc = "exit"
    /\ precond = AllMet
    /\ Len(file) = 2
    /\ DeclaredColumns \subseteq DOMAIN file[1]
    /\ currencyColumn \notin DOMAIN file[2]
    /\ calls = <<>>

\* ------------------------------------------------------------------- C27
\* C27: every column of the input record is in the record's output row under
\* the same name with its original, unmodified value.
C27_InputColumnsCopiedUnmodified ==
    pc = "write" =>
        \A column \in DOMAIN source[i + 1] :
            /\ column \in DOMAIN PushedRow.columns
            /\ PushedRow.columns[column] = source[i + 1][column]


\* ------------------------------------------------------------------- C29
\* The call of candidate c that resolved last failed without a status code.
LastCallTransient(c) ==
    /\ result[c] # NoResult
    /\ result[c].kind = "error"
    /\ ~result[c].statusCode

\* C29: in calculateEmissions a 500 ms backoff wait occurs exactly once between
\* two consecutive attempts and nowhere else: a candidate that made m calls
\* (1 <= m <= 5) has waited m - 1 times once its m-th call is issued or
\* settled, a wait is pending only after a status-less failure of one of the
\* first four attempts, and the total per candidate is at most MAX_RETRIES x 500.
C29_BackoffOnlyBetweenAttempts ==
    \A c \in DOMAIN tpc :
        /\ calls[c] \in 1 .. MAX_RETRIES
        /\ tpc[c] \in {"call", "done"} => waited[c] = (calls[c] - 1) * RetryDelayMs
        /\ tpc[c] = "sleep" =>
               /\ waited[c] = calls[c] * RetryDelayMs
               /\ calls[c] < MAX_RETRIES
               /\ LastCallTransient(c)
        /\ waited[c] <= MAX_RETRIES * RetryDelayMs

\* A candidate gave up after its fifth status-less failure with four waits
\* behind it, and another was rejected with a status code at its first call
\* without any wait.
C29_Witness ==
    \E c, d \in DOMAIN tpc :
        /\ tpc[c] = "done" /\ calls[c] = MAX_RETRIES /\ LastCallTransient(c)
        /\ waited[c] = (MAX_RETRIES - 1) * RetryDelayMs
        /\ tpc[d] = "done" /\ calls[d] = 1 /\ result[d].kind = "error"
        /\ result[d].statusCode /\ waited[d] = 0

\* ------------------------------------------------------------------- C30
\* C30: the Failure returned by the adapter tells the two kinds of failure
\* apart: the outcome of a candidate rejected with a status code differs from
\* the outcome of a candidate that exhausted its five attempts.
C30_FailureKindsDistinguished ==
    \A c, d \in DOMAIN tpc :
        /\ tpc[c] = "done" /\ result[c].kind = "error" /\ result[c].statusCode
        /\ tpc[d] = "done" /\ LastCallTransient(d) /\ calls[d] = MAX_RETRIES
        => returned[c] # returned[d]


\* --------------------------------------------- the single-search-term tool
\* src/src/index.ts: one search-term column, an optional category column, one
\* call per record, one output written at the end.  In a run of this tool
\* requests, calls, result and returned have one element per record called so
\* far, and precond also says whether the option --output was given.
SingleOptionNames == PreconditionNames \cup {"output"}

\* Where the text goes when no --output is given: console.log.
Stdout == <<"<stdout>">>

\* main, lines 148-152: the arguments of calculateEmissions for a record.
SingleSearchTerm(row) == Trim(row[searchTermColumnsArr[1]])

SingleCategory(row) ==
    IF Len(categoryColumnsArr) # 0 THEN Trim(row[categoryColumnsArr[1]]) ELSE UndefinedCategory

\* calculateEmissions of index.ts, lines 66-76.
SingleRequest(row) ==
    Request([searchTerm |-> SingleSearchTerm(row), category |-> SingleCategory(row)],
            RemoveCommas(Trim(row[monetaryAmountColumn])), Trim(row[currencyColumn]),
            Trim(row[countryCodeColumn]))

\* calculateEmissions of index.ts, lines 77-98: one call, never repeated.
calculateEmissionsSingle(res) ==
    IF res.kind = "error" THEN Err(res.description)
    ELSE IF ~res.mass
    THEN Ok([emissionsTCo2 |-> <<>>, emissionFactorName |-> <<>>,
             emissionFactorSource |-> <<>>, score |-> <<>>, dashboardUrl |-> <<>>])
    ELSE Ok([emissionsTCo2 |-> res.fields.amount,
             emissionFactorName |-> res.fields.emissionFactor.name,
             emissionFactorSource |-> res.fields.emissionFactor.source,
             score |-> IF res.score = Undefined
                       THEN <<"undefined">> ELSE <<ToString(res.score)>>,
             dashboardUrl |-> dashboardUrl(res.fields.id)])

\* main of index.ts, lines 161-186: the row pushed for a record; the six named
\* columns come after ...row and override it.
SingleOutputRow(n, row, ret) ==
    [index |-> n, row |-> row,
     columns |->
        (IF ret.tag = "err"
         THEN [col \in {"Emissions (tCO2e)", "Emission factor name",
                        "Emission factor source", "Confidence score", "Dashboard URL"}
                  |-> <<>>]
              @@ [col \in {"Error"} |-> ret.error]
         ELSE ("Emissions (tCO2e)" :> ret.value.emissionsTCo2)
              @@ ("Emission factor name" :> ret.value.emissionFactorName)
              @@ ("Emission factor source" :> ret.value.emissionFactorSource)
              @@ ("Confidence score" :> ret.value.score)
              @@ ("Dashboard URL" :> ret.value.dashboardUrl)
              @@ ("Error" :> <<>>))
        @@ row]

\* The loop of lines 147-160 reaches its await for record n.
SingleCall(n) ==
    /\ i' = n
    /\ requests' = Append(requests, SingleRequest(source[n + 1]))
    /\ calls' = Append(calls, 1)
    /\ pc' = "single_await"

\* main of index.ts, lines 146-154: the loop starts with the first record.
SingleBegin ==
    /\ pc = "single_start"
    /\ SingleCall(0)
    /\ UNCHANGED <<searchTermColumnsArr, categoryColumnsArr, outputFileRows, file, source,
                   precond, searchPermutations, tpc, retryCount, result, returned, failures,
                   waited, permutationsResults, sortedPermutationResults, out, written, faults>>

\* The record's call as it would be if a failure ended the loop.
SingleRespondAbortOnFailure(res) ==
    /\ pc = "single_await"
    /\ LET ret == calculateEmissionsSingle(res)
           last == i + 1 >= totalRows \/ ret.tag = "err"
       IN /\ result' = Append(result, res)
          /\ returned' = Append(returned, ret)
          /\ out' = Append(out, SingleOutputRow(i, source[i + 1], ret))
          /\ IF ~last
             THEN SingleCall(i + 1) /\ written' = written
             ELSE /\ UNCHANGED <<i, requests, calls>>
                  /\ IF precond["output"]
                     THEN pc' = "single_write" /\ written' = written
                     ELSE /\ pc' = "done"
                          /\ written' = <<[suffix |-> Null, name |-> Stdout, rows |-> out']>>
    /\ UNCHANGED <<searchTermColumnsArr, categoryColumnsArr, outputFileRows, file, source,
                   precond, searchPermutations, tpc, retryCount, failures, waited,
                   permutationsResults, sortedPermutationResults, faults>>

\* The call of record i resolves with res (line 154): its row is pushed, with
\* the error or with the results (161-186), and the loop goes on to the next
\* record; after the last one the text is written to --output, which is
\* awaited, or logged (189-195).
SingleRespond(res) ==
    /\ pc = "single_await"
    /\ LET ret == calculateEmissionsSingle(res)
       IN /\ result' = Append(result, res)
          /\ returned' = Append(returned, ret)
          /\ out' = Append(out, SingleOutputRow(i, source[i + 1], ret))
          /\ IF i + 1 < totalRows
             THEN SingleCall(i + 1) /\ written' = written
             ELSE /\ UNCHANGED <<i, requests, calls>>
                  /\ IF precond["output"]
                     THEN pc' = "single_write" /\ written' = written
                     ELSE /\ pc' = "done"
                          /\ written' = <<[suffix |-> Null, name |-> Stdout, rows |-> out']>>
    /\ UNCHANGED <<searchTermColumnsArr, categoryColumnsArr, outputFileRows, file, source,
                   precond, searchPermutations, tpc, retryCount, failures, waited,
                   permutationsResults, sortedPermutationResults, faults>>

\* writeFile(output, csvText) resolves (line 192).
SingleWriteDone ==
    /\ pc = "single_write"
    /\ written' = <<[suffix |-> Null, name |-> output, rows |-> out]>>
    /\ pc' = "done"
    /\ UNCHANGED <<searchTermColumnsArr, categoryColumnsArr, outputFileRows, file, source,
                   precond, i, searchPermutations, requests, tpc, retryCount, result, returned,
                   calls, failures, waited, permutationsResults, sortedPermutationResults,
                   out, faults>>

\* The single-search-term tool after its loader returned Ok: 1..MaxRows
\* records, with or without a category column and an --output option.
InitSingle ==
    \E r \in 1 .. MaxRows, c \in 0 .. 1, o \in BOOLEAN :
        /\ pc = "single_start"
        /\ searchTermColumnsArr = SubSeq(SearchTermColumnNames, 1, 1)
        /\ categoryColumnsArr = SubSeq(CategoryColumnNames, 1, c)
        /\ outputFileRows = 1
        /\ file = Rows(r, 1, c)
        /\ source = Rows(r, 1, c)
        /\ precond = [p \in SingleOptionNames |-> IF p = "output" THEN o ELSE TRUE]
        /\ i = 0
        /\ searchPermutations = <<>>
        /\ requests = <<>>
        /\ tpc = <<>>
        /\ retryCount = <<>>
        /\ result = <<>>
        /\ returned = <<>>
        /\ calls = <<>>
        /\ failures = <<>>
        /\ waited = <<>>
        /\ permutationsResults = <<>>
        /\ sortedPermutationResults = <<>>
        /\ out = <<>>
        /\ written = <<>>
        /\ faults = 0

NextSingle == SingleBegin \/ (\E res \in Responses : SingleRespond(res)) \/ SingleWriteDone

SpecSingle == InitSingle /\ [][NextSingle]_vars

\* ------------------------------------------------------------------- C28
SingleResultColumns ==
    {"Emissions (tCO2e)", "Emission factor name", "Emission factor source",
     "Confidence score", "Dashboard URL"}

\* The calls of the single-search-term tool that have been issued and have not
\* resolved.
SingleInFlight == IF pc = "single_await" THEN 1 ELSE 0

\* C28: in the single-search-term tool the records are processed one after the
\* other with exactly one estimation call each, a failed call never ends the
\* run, and the output has exactly one row per record, in input order, whose
\* Error column is non-empty exactly when the record's call failed, and then
\* every result column is empty.
C28_SingleToolOneRowPerRecord ==
    /\ Len(requests) = Len(out) + SingleInFlight
    /\ Len(calls) = Len(requests)
    /\ Len(result) = Len(out)
    /\ \A k \in 1 .. Len(requests) :
          calls[k] = 1 /\ requests[k] = SingleRequest(source[k])
    /\ \A k \in 1 .. Len(out) :
          /\ out[k].index = k - 1
          /\ out[k].row = source[k]
          /\ out[k].columns["Error"] # <<>> <=> result[k].kind = "error"
          /\ result[k].kind = "error" =>
                \A col \in SingleResultColumns : out[k].columns[col] = <<>>
    /\ pc = "single_start" \/ SingleInFlight = 1 \/ Len(out) = totalRows
    /\ pc = "done" =>
          /\ Len(written) = 1
          /\ written[1].rows = out
          /\ written[1].name = IF precond["output"] THEN output ELSE Stdout
    /\ pc # "done" => written = <<>>

\* A run of three records is over: the call of the second one failed, those of
\* the first and the third returned an estimate, and three rows were written.
C28_Witness ==
    /\ pc = "done"
    /\ totalRows = 3
    /\ Len(written) = 1
    /\ Len(written[1].rows) = 3
    /\ result[1].kind # "error"
    /\ result[2].kind = "error"
    /\ result[3].kind # "error"
    /\ written[1].rows[2].columns["Error"] # <<>>
    /\ written[1].rows[3].columns["Error"] = <<>>


\* ------------------------------------------------------------------- C31
\* Several records of one candidate each, written in chunks of one or two,
\* or one record of two candidates, where every call of a candidate can fail
\* without a status code.  Every service call resolves,
\* every timer fires, every write completes and the event loop runs the
\* continuation that is ready: a step that can be taken is taken.
InitLive ==
    \/ \E r \in 1 .. MaxRows, rows \in 1 .. 2 : InitRun(r, 1, 0, rows, MAX_RETRIES)
    \/ InitRun(1, 1, 2, 1, MAX_RETRIES)

SpecLive == InitLive /\ [][Next]_vars /\ WF_vars(Next)

\* No candidate has made more than MAX_RETRIES calls, so the N candidates of a
\* record have made at most MAX_RETRIES x N.
RECURSIVE SumCalls(_)
SumCalls(k) == IF k = 0 THEN 0 ELSE SumCalls(k - 1) + calls[k]

CallsBounded ==
    /\ \A c \in DOMAIN calls : calls[c] <= MAX_RETRIES
    /\ Len(calls) = Len(searchPermutations)
    /\ SumCalls(Len(calls)) <= MAX_RETRIES * Len(searchPermutations)

\* The run is over and every record's row is in a file.
AllRowsWritten ==
    /\ pc = "done"
    /\ out = <<>>
    /\ Len(WrittenRows(Len(written))) = totalRows
    /\ \A k \in 1 .. totalRows : WrittenRows(Len(written))[k].row = source[k]

\* C31: when every service call returns and every write completes, a run over
\* R records ends with all R rows written, and no candidate makes more than 5
\* calls: at most 5 x N calls for a record of N candidates.
C31_RunTerminatesWithinCallBudget == []CallsBounded /\ <>AllRowsWritten

\* A run of several records is over with every row written in two files, and
\* the candidate of the last record made five calls.
C31_Witness ==
    /\ AllRowsWritten
    /\ totalRows = MaxRows
    /\ Len(written) = 2
    /\ \E c \in DOMAIN calls : calls[c] = MAX_RETRIES


\* ------------------------------------------------------------------- C32
\* One or two records of two candidates each (one search-term column, two
\* category columns).
InitConcurrent == \E r \in 1 .. 2 : InitRun(r, 1, 2, 1, MaxFaults)

SpecConcurrent == InitConcurrent /\ [][Next]_vars

\* The candidates whose service call is issued and has not resolved.
Outstanding == {c \in DOMAIN tpc : tpc[c] = "call"}

\* C32: at every moment the outstanding estimation calls are calls of
\* candidates of the one record being processed, each candidate has at most
\* one (in its loop iteration retryCount it has issued retryCount + 1 calls
\* and all but the last have resolved), and so there are at most N of them.
C32_OutstandingCallsOfCurrentRowOnly ==
    /\ Outstanding # {} => pc = "await"
    /\ Cardinality(Outstanding) <= Len(searchPermutations)
    /\ \A c \in Outstanding :
          /\ searchPermutations = RowPermutations(source[i + 1])
          /\ requests[c] = Request(searchPermutations[c], RowAmount(source[i + 1]),
                                   RowCurrency(source[i + 1]), RowCountryCode(source[i + 1]))
          /\ calls[c] = retryCount[c] + 1
          /\ failures[c] = retryCount[c]
          /\ returned[c] = NoReturn

\* No smaller cap: the two candidates of the second record both have a call
\* outstanding, one of them its second.
C32_Witness ==
    /\ i = 1
    /\ Len(searchPermutations) = 2
    /\ Outstanding = {1, 2}
    /\ \E c \in Outstanding : calls[c] = 2


\* ------------------------------------------------------------------- C33
\* One record of one search term, with no category column or with one whose
\* cell holds arbitrary text.
InitCategory ==
    \E c \in 0 .. 1, category \in Texts :
        /\ pc = "start"
        /\ searchTermColumnsArr = SubSeq(SearchTermColumnNames, 1, 1)
        /\ categoryColumnsArr = SubSeq(CategoryColumnNames, 1, c)
        /\ outputFileRows = 1
        /\ file = <<[column \in ColumnSet(1, c) |->
                        IF c = 1 /\ column = CategoryColumnNames[1]
                        THEN category ELSE Cell(1, column)]>>
        /\ source = file
        /\ precond = AllMet
        /\ i = 0
        /\ searchPermutations = <<>>
        /\ requests = <<>>
        /\ tpc = <<>>
        /\ retryCount = <<>>
        /\ result = <<>>
        /\ returned = <<>>
        /\ calls = <<>>
        /\ failures = <<>>
        /\ waited = <<>>
        /\ permutationsResults = <<>>
        /\ sortedPermutationResults = <<>>
        /\ out = <<>>
        /\ written = <<>>
        /\ faults = MaxFaults

SpecCategory == InitCategory /\ [][Next]_vars

\* The record has a category: a category column is configured and its cell is
\* not blank.
CategoryPresent(row) ==
    /\ Len(categoryColumnsArr) # 0
    /\ Core(row[categoryColumnsArr[1]]) # <<>>

\* C33: the request sent for a candidate has a merchant category field exactly
\* when the candidate's category is present and not empty; a candidate whose
\* category is absent or the empty string is estimated all the same, with one
\* request that has no category field.
C33_CategoryFieldIffNonEmpty ==
    pc # "start" =>
        /\ Len(requests) = 1
        /\ calls[1] >= 1
        /\ "category" \in DOMAIN requests[1].merchant <=> CategoryPresent(source[1])
        /\ CategoryPresent(source[1]) =>
              requests[1].merchant.category = Core(source[1][categoryColumnsArr[1]])
        /\ requests[1].merchant.searchTerm = Core(source[1][searchTermColumnsArr[1]])

\* A record whose category cell is blank has been estimated with a request
\* without category, and its row is written.
C33_Witness ==
    /\ pc = "done"
    /\ Len(categoryColumnsArr) = 1
    /\ source[1][categoryColumnsArr[1]] = <<" ", " ">>
    /\ "category" \notin DOMAIN requests[1].merchant
    /\ result[1].kind = "estimate"
    /\ Len(written) = 1


\* ------------------------------------------------------------------- C34
\* C34: for every entry of a merged row, the column 'Confidence score (i)' is
\* not empty exactly when the entry is in the scored partition of the ranking
\* (its score is defined), and then it is the score as a string; so it is for
\* a candidate whose match score is 0.
C34_ConfidenceColumnIffScored ==
    pc = "write" =>
        \A k \in 1 .. Len(sortedPermutationResults) :
            LET e == sortedPermutationResults[k]
                column == PushedRow.columns[Key("Confidence score", k)]
            IN /\ column # <<>> <=> HasScore(e)
               /\ HasScore(e) => column = <<ToString(e.score)>>


\* ------------------------------------------------------------------- C35
\* Candidate c has reached result!.unwrap() (line 121): calculateEmissions
\* went past its loop, and either returned Ok or threw.
UnwrapReached(c) == returned[c].tag = "ok" \/ tpc[c] = "threw"

\* C35: in calculateEmissions the unwrap that follows the retry loop is reached
\* only when the most recent call succeeded: never with an undefined result
\* nor with an error result, so it never throws.
C35_UnwrapOnlyAfterSuccess ==
    \A c \in DOMAIN tpc :
        /\ tpc[c] # "threw"
        /\ UnwrapReached(c) => result[c] # NoResult /\ result[c].kind = "estimate"
        /\ tpc[c] = "done" /\ result[c].kind = "error" => returned[c].tag = "err"

\* A candidate went past the loop at its fifth call, after four failures, and
\* another returned an error without reaching the unwrap.
C35_Witness ==
    \E c, d \in DOMAIN tpc :
        /\ UnwrapReached(c) /\ calls[c] = MAX_RETRIES /\ result[c].kind = "estimate"
        /\ tpc[d] = "done" /\ returned[d].tag = "err"


\* ------------------------------------------------------------------- C36
\* C36: the suffixes of the chunk files written during one run are strictly
\* increasing in flush order, hence pairwise distinct: no flush overwrites a
\* file written by an earlier flush of the run.
C36_SuffixesStrictlyIncreasing ==
    \A j, k \in 1 .. Len(written) :
        j < k => /\ written[j].suffix < written[k].suffix
                 /\ written[j].name # written[k].name

\* A run of three records is over and has written more than one file.
C36_Witness ==
    /\ pc = "done"
    /\ totalRows = 3
    /\ Len(written) >= 2

\* ------------------------------------------------------------------- C37
\* C37: the suffixes of the chunk files written by a run are the contiguous
\* integers 0, 1, ..., number of files - 1: the first file written has suffix
\* 0 and consecutive files have consecutive suffixes.
C37_SuffixesContiguousFromZero ==
    \A k \in 1 .. Len(written) : written[k].suffix = k - 1


\* ------------------------------------------------------------------- C38
\* The rank indexes under which the outcome of candidate c is in the ranked
\* sequence.
RanksOf(c) ==
    {k \in 1 .. Len(sortedPermutationResults) : sortedPermutationResults[k].cand = c}

\* The number of times entry e occurs in the sequence entries.
Occurrences(e, entries) == Cardinality({k \in 1 .. Len(entries) : entries[k] = e})

\* C38: ranking neither loses nor duplicates outcomes: the ranked sequence of
\* a record is a rearrangement of the outcomes collected for it (the same
\* multiset), so the outcome of each candidate is under exactly one rank index
\* of the output row.
C38_RankingIsRearrangement ==
    pc = "write" =>
        /\ Len(sortedPermutationResults) = Len(permutationsResults)
        /\ Len(permutationsResults) = Len(searchPermutations)
        /\ \A k \in 1 .. Len(permutationsResults) :
              Occurrences(permutationsResults[k], sortedPermutationResults)
                  = Occurrences(permutationsResults[k], permutationsResults)
        /\ \A c \in Tasks : Cardinality(RanksOf(c)) = 1
        /\ \A k \in 1 .. Len(sortedPermutationResults) :
              \A key \in DOMAIN ResultColumns(sortedPermutationResults[k], k) :
                  PushedRow.columns[key] = ResultColumns(sortedPermutationResults[k], k)[key]

\* Two outcomes were collected, a failure first and an estimate of score 0
\* second, and the ranking put them the other way round.
C38_Witness ==
    /\ pc = "write"
    /\ Len(permutationsResults) = 2
    /\ ~HasScore(permutationsResults[1])
    /\ permutationsResults[2].score = 0
    /\ sortedPermutationResults[1] = permutationsResults[2]
    /\ sortedPermutationResults[2] = permutationsResults[1]

====
